---- MODULE Spec2Model ----
(***************************************************************************)
(* NoteTaker: the HTTP handlers of app.py over the notes table of          *)
(* database.py and the uploads/ directory.                                 *)
(*                                                                         *)
(* A string is a sequence of symbols.  Each of the characters the code or  *)
(* SQLite looks for (/ \ . % _) is a symbol of its own; any other symbol   *)
(* is one character, or a run of characters no operation looks inside      *)
(* ("uploads", a uuid).  An Optional[str] is <<>> (None) or <<s>>.  A path  *)
(* is a sequence of components, each a string, below the working           *)
(* directory.  Every handler is cut at its awaits: the code between two    *)
(* awaits of one coroutine runs without interleaving, and a database call  *)
(* is one atomic statement.                                                *)
(***************************************************************************)
EXTENDS Integers, Sequences, FiniteSets, TLC

\* ------------------------------------------------------------------ bounds
NumProcs == 3     \* requests of the concurrent specification
MaxNotes == 2     \* rows ever inserted
MaxTick  == 1     \* clock advances
MaxFiles == 2     \* files in one create request

Procs == 1..NumProcs
Ids   == 1..MaxNotes

\* --------------------------------------------------------- program constants
\* app.py:95  50 * 1024 * 1024
MAX_FILE_SIZE == 52428800

\* app.py:20  UPLOAD_DIR = Path("uploads")
UPLOAD_DIR == << <<"uploads">> >>

\* ------------------------------------------------------------------ strings
None == <<>>
Some(s) == <<s>>

\* Python truthiness of an Optional[str]: neither None nor ''.
Truthy(o) == o # None /\ o[1] # <<>>

\* needle in hay (Python's substring test)
Contains(hay, needle) ==
    \E i \in 1..(Len(hay) - Len(needle) + 1) :
        SubSeq(hay, i, i + Len(needle) - 1) = needle

\* s.rfind(c) as a 1-based index, 0 when absent
RFind(s, c) ==
    IF \E i \in 1..Len(s) : s[i] = c
    THEN CHOOSE i \in 1..Len(s) : s[i] = c /\ \A j \in (i+1)..Len(s) : s[j] # c
    ELSE 0

\* the text after the last "/" (PurePosixPath(...).name, for a name that does
\* not end with "/")
BaseName(s) == SubSeq(s, RFind(s, "/") + 1, Len(s))

\* PurePath.suffix: from the last dot of the final component, unless that dot
\* is its first or its last character
Suffix(s) ==
    LET name == BaseName(s)
        i    == RFind(name, ".")
    IN  IF 1 < i /\ i < Len(name) THEN SubSeq(name, i, Len(name)) ELSE <<>>

\* str.split("/") without the empty components: the parts of a relative
\* POSIX path
RECURSIVE Parts(_)
Parts(s) ==
    IF s = <<>> THEN <<>>
    ELSE LET k == IF \E i \in 1..Len(s) : s[i] = "/"
                  THEN CHOOSE i \in 1..Len(s) :
                           s[i] = "/" /\ \A j \in 1..(i-1) : s[j] # "/"
                  ELSE Len(s) + 1
             first == SubSeq(s, 1, k - 1)
             rest  == Parts(SubSeq(s, k + 1, Len(s)))
         IN  IF first = <<>> THEN rest ELSE <<first>> \o rest

\* what the operating system opens for a relative path: "." stays, ".." goes
\* up (never above the working directory's root here: <<"..">> marks a path
\* that left the working directory)
RECURSIVE Resolve(_, _)
Resolve(done, parts) ==
    IF parts = <<>> THEN done
    ELSE IF Head(parts) = <<".">> THEN Resolve(done, Tail(parts))
    ELSE IF Head(parts) = <<".", ".">>
         THEN IF done = <<>> \/ done[Len(done)] = <<".", ".">>
              THEN Resolve(Append(done, Head(parts)), Tail(parts))
              ELSE Resolve(SubSeq(done, 1, Len(done) - 1), Tail(parts))
    ELSE Resolve(Append(done, Head(parts)), Tail(parts))

\* Path(text) as the operating system resolves it
PathOf(text) ==
    IF text # <<>> /\ text[1] = "/"
    THEN << <<"/">> >> \o Resolve(<<>>, Parts(text))
    ELSE Resolve(<<>>, Parts(text))

\* dir / filename (pathlib): an absolute filename replaces dir
JoinPath(dir, filename) ==
    IF filename # <<>> /\ filename[1] = "/"
    THEN PathOf(filename)
    ELSE Resolve(dir, Parts(filename))

\* ----------------------------------------------------------------- database
\* datetime.isoformat() of a time <<seconds, microseconds>>: the fraction is
\* left out when the microseconds are 0.  The seconds stand for the
\* fixed-width "YYYY-MM-DDTHH:MM:SS", the microseconds for ".ffffff".
Isoformat(t) == IF t[2] = 0 THEN <<t[1]>> ELSE <<t[1], t[2]>>

\* a < b as SQLite compares TEXT (memcmp, a proper prefix is smaller)
RECURSIVE TextLess(_, _)
TextLess(a, b) ==
    IF b = <<>> THEN FALSE
    ELSE IF a = <<>> THEN TRUE
    ELSE IF Head(a) # Head(b) THEN Head(a) < Head(b)
    ELSE TextLess(Tail(a), Tail(b))

Max(a, b) == IF a >= b THEN a ELSE b
Min(a, b) == IF a <= b THEN a ELSE b

RowIds(table) == {r.id : r \in table}

MaxRowid(table) ==
    IF table = {} THEN 0
    ELSE CHOOSE m \in RowIds(table) : \A i \in RowIds(table) : i <= m

\* (a variant: INTEGER PRIMARY KEY without AUTOINCREMENT, one more than the
\* largest rowid the table holds now)
NextRowidNoAutoincrement(table, sequence) == MaxRowid(table) + 1

\* id INTEGER PRIMARY KEY AUTOINCREMENT: one more than the largest rowid the
\* table ever held (sqlite_sequence), not just than the largest it holds now
NextRowid(table, sequence) == Max(sequence, MaxRowid(table)) + 1

\* the row create_note inserts (id is set by the INSERT)
NewRow(note_type, content, file_name, file_path, mime_type, tags, now) ==
    [id |-> 0, note_type |-> note_type, content |-> content,
     file_name |-> file_name, file_path |-> file_path,
     mime_type |-> mime_type, tags |-> tags,
     created_at |-> now, updated_at |-> now]

\* SQLite's lower-casing of the ASCII letters in LIKE
Fold(c) == IF c = "A" THEN "a" ELSE IF c = "B" THEN "b" ELSE c

\* text LIKE pattern: % matches any run, _ any one character, letters match
\* without regard to case
RECURSIVE Like(_, _)
Like(text, pattern) ==
    IF pattern = <<>> THEN text = <<>>
    ELSE IF Head(pattern) = "%"
         THEN Like(text, Tail(pattern))
              \/ (text # <<>> /\ Like(Tail(text), pattern))
    ELSE /\ text # <<>>
         /\ (Head(pattern) = "_" \/ Fold(Head(pattern)) = Fold(Head(text)))
         /\ Like(Tail(text), Tail(pattern))

\* column LIKE pattern is NULL, so not true, for a NULL column
ColumnLike(col, pattern) == col # None /\ Like(col[1], pattern)

\* WHERE content LIKE ? OR tags LIKE ? OR file_name LIKE ?
SearchWhere(row, pattern) ==
    \/ ColumnLike(row.content, pattern)
    \/ ColumnLike(row.tags, pattern)
    \/ ColumnLike(row.file_name, pattern)

\* ORDER BY created_at DESC: every order of the rows in which created_at
\* never increases (SQLite promises no order among equal keys)
OrderByCreatedDesc(rows) ==
    {o \in [1..Cardinality(rows) -> rows] :
        /\ \A i, j \in 1..Cardinality(rows) : i # j => o[i] # o[j]
        /\ \A i, j \in 1..Cardinality(rows) :
              i < j => ~TextLess(o[i].created_at, o[j].created_at)}

\* LIMIT limit OFFSET offset: a negative OFFSET skips nothing, a negative
\* LIMIT is no limit
LimitOffset(ordered, limit, offset) ==
    LET skip == IF offset < 0 THEN 0 ELSE offset
        rest == SubSeq(ordered, skip + 1, Len(ordered))
    IN  IF limit < 0 THEN rest ELSE SubSeq(rest, 1, Min(limit, Len(rest)))

\* the results get_all_notes(limit, offset) can return
GetAllNotes(table, limit, offset) ==
    {LimitOffset(o, limit, offset) : o \in OrderByCreatedDesc(table)}

\* the results search_notes(query, limit) can return
SearchNotes(table, query, limit) ==
    LET search_pattern == <<"%">> \o query \o <<"%">>
        hits == {r \in table : SearchWhere(r, search_pattern)}
    IN  {LimitOffset(o, limit, 0) : o \in OrderByCreatedDesc(hits)}

\* get_note_by_id: the rows with that id (none or one)
GetNoteById(table, note_id) == {r \in table : r.id = note_id}

\* ------------------------------------------------------------------- state
VARIABLES
    notes,          \* the notes table: a set of rows
    sqliteSeq,      \* sqlite_sequence of notes: the largest rowid ever used
    disk,           \* the files that exist: a set of paths
    uuidSeq,        \* uuids generated so far
    clock,          \* utcnow(): <<seconds, microseconds>>
    pc,             \* per request slot: where its handler stands
    req,            \* per request slot: the request
    loc,            \* per request slot: the handler's local variables
    resp,           \* per request slot: the response, once pc = "done"
    inserted,       \* history: every row inserted, in order
    written,        \* history: every blob written, in order
    delStat,        \* history: per id, the deletes asked of it
    unlinkFailed    \* history: the paths whose unlink raised

vars == <<notes, sqliteSeq, disk, uuidSeq, clock, pc, req, loc, resp,
          inserted, written, delStat, unlinkFailed>>

NoReq  == [kind |-> "none"]
NoLoc  == [at |-> 0]
NoResp == [status |-> 0]

\* files of the deployment that are not uploads (database.py:10, app.py:60)
OtherFiles == { << <<"data">>, <<"notes", ".", "db">> >>,
                << <<"static">>, <<"index", ".", "html">> >> }

\* the directories (app.py:20-23, and the working directory itself)
Dirs == { <<>>, UPLOAD_DIR, << <<"static">> >>, << <<"data">> >> }

\* Path.exists()
Exists(fs, path) == path \in fs \/ path \in Dirs

Init ==
    /\ notes = {}
    /\ sqliteSeq = 0
    /\ disk = OtherFiles
    /\ uuidSeq = 0
    /\ clock = <<0, 0>>
    /\ pc = [p \in Procs |-> "idle"]
    /\ req = [p \in Procs |-> NoReq]
    /\ loc = [p \in Procs |-> NoLoc]
    /\ resp = [p \in Procs |-> NoResp]
    /\ inserted = <<>>
    /\ written = <<>>
    /\ delStat = [i \in Ids |-> [first |-> "none", ok |-> 0]]
    /\ unlinkFailed = {}

\* the clock moves on: by a microsecond, or to the next full second
Tick ==
    /\ clock[1] + clock[2] < MaxTick
    /\ \/ clock' = <<clock[1], clock[2] + 1>>
       \/ clock' = <<clock[1] + 1, 0>>
    /\ UNCHANGED <<notes, sqliteSeq, disk, uuidSeq, pc, req, loc, resp,
                   inserted, written, delStat, unlinkFailed>>

\* ------------------------------------------------------------ POST /api/notes
\* mimetypes.guess_type(filename)[0], for the extensions of the model
GuessType(filename) ==
    IF Suffix(filename) = <<".", "txt">> THEN Some(<<"text", "/", "plain">>)
    ELSE None

\* file.content_type or guess_type(file.filename)[0] or the fallback
MimeType(file) ==
    IF Truthy(file.content_type) THEN file.content_type
    ELSE IF Truthy(GuessType(file.filename[1])) THEN GuessType(file.filename[1])
    ELSE Some(<<"application", "/", "octet-stream">>)

\* (a variant: any upload at all, the first file's name not looked at)
IsFileUploadAnyFile(files) == Len(files) > 0

\* app.py:88  files and len(files) > 0 and files[0].filename and ... != ''
IsFileUpload(files) == Len(files) > 0 /\ Truthy(files[1].filename)

\* (a variant: the check off by one byte)
TooLargeOffByOne(file) == file.size - 1 > MAX_FILE_SIZE

\* app.py:95  the size check
TooLarge(file) == file.size > MAX_FILE_SIZE

\* (a variant: the same name every time)
Uuid4Fixed(n) == <<"u">>

\* str(uuid.uuid4()): a name no earlier call returned
Uuid4(n) == <<ToString(n)>>

\* rows whose INSERT is still to come count against MaxNotes
Reserved == sqliteSeq + Cardinality({q \in Procs : pc[q] = "c_insert"})

\* the request arrives and is classified (app.py:85-88, 128, 141, 153); for a
\* link or a text note create_note runs up to its first await
CreateStart(p, r) ==
    /\ pc[p] = "idle"
    /\ req' = [req EXCEPT ![p] = r]
    /\ IF IsFileUpload(r.files)
       THEN /\ pc' = [pc EXCEPT ![p] = "c_file"]
            /\ loc' = [loc EXCEPT ![p] =
                   [i |-> 1, row |-> NoReq, created_notes |-> <<>>,
                    ibase |-> Len(inserted), wbase |-> Len(written)]]
            /\ resp' = resp
       ELSE IF Truthy(r.link) \/ Truthy(r.content)
       THEN /\ Reserved < MaxNotes
            /\ pc' = [pc EXCEPT ![p] = "c_insert"]
            /\ loc' = [loc EXCEPT ![p] =
                   [i |-> 0,
                    row |-> IF Truthy(r.link)
                            THEN NewRow("link", r.link, None, None, None,
                                        r.tags, Isoformat(clock))
                            ELSE NewRow("text", r.content, None, None, None,
                                        r.tags, Isoformat(clock)),
                    created_notes |-> <<>>,
                    ibase |-> Len(inserted), wbase |-> Len(written)]]
            /\ resp' = resp
       ELSE /\ pc' = [pc EXCEPT ![p] = "done"]
            /\ loc' = [loc EXCEPT ![p] =
                   [i |-> 0, row |-> NoReq, created_notes |-> <<>>,
                    ibase |-> Len(inserted), wbase |-> Len(written)]]
            /\ resp' = [resp EXCEPT ![p] = [status |-> 400]]
    /\ UNCHANGED <<notes, sqliteSeq, disk, uuidSeq, clock,
                   inserted, written, delStat, unlinkFailed>>

\* the response of a create that ran to its end (app.py:156-160)
CreateOk(created_notes) ==
    [status |-> 200, success |-> TRUE, notes |-> created_notes,
     count |-> Len(created_notes)]

\* (a variant: the write is lost)
WriteBlobNowhere(fs, path) == fs

\* blob store after open(file_path, "wb").write(file_content)
WriteBlob(fs, path) == fs \cup {path}

\* one turn of the loop over the files, up to the await of create_note
\* (app.py:89-111): skip a file without a name, refuse one that is too large,
\* else write the blob and build the row
CreateFile(p) ==
    /\ pc[p] = "c_file"
    /\ LET file == req[p].files[loc[p].i]
           last == loc[p].i = Len(req[p].files)
           unique_filename == Uuid4(uuidSeq + 1) \o Suffix(file.filename[1])
       IN  IF ~Truthy(file.filename)
           THEN /\ pc' = [pc EXCEPT ![p] = IF last THEN "done" ELSE "c_file"]
                /\ loc' = [loc EXCEPT ![p].i = @ + 1]
                /\ resp' = [resp EXCEPT ![p] =
                       IF last THEN CreateOk(loc[p].created_notes) ELSE @]
                /\ UNCHANGED <<disk, uuidSeq, written>>
           ELSE IF TooLarge(file)
           THEN /\ pc' = [pc EXCEPT ![p] = "done"]
                /\ resp' = [resp EXCEPT ![p] = [status |-> 413]]
                /\ UNCHANGED <<loc, disk, uuidSeq, written>>
           ELSE /\ Reserved < MaxNotes
                /\ uuidSeq' = uuidSeq + 1
                /\ disk' = WriteBlob(disk, JoinPath(UPLOAD_DIR, unique_filename))
                /\ written' = Append(written,
                                     JoinPath(UPLOAD_DIR, unique_filename))
                /\ pc' = [pc EXCEPT ![p] = "c_insert"]
                /\ loc' = [loc EXCEPT ![p].row =
                       NewRow("file",
                              IF Truthy(req[p].content) THEN req[p].content
                              ELSE None,
                              file.filename,
                              Some(<<"uploads", "/">> \o unique_filename),
                              MimeType(file), req[p].tags, Isoformat(clock))]
                /\ resp' = resp
    /\ UNCHANGED <<notes, sqliteSeq, clock, req, inserted, delStat,
                   unlinkFailed>>

\* the summary appended to created_notes (app.py:120-125, 134-138, 147-151)
Summary(row) ==
    IF row.note_type = "file"
    THEN [id |-> row.id, note_type |-> "file", file_name |-> row.file_name[1],
          message |-> "File uploaded successfully"]
    ELSE [id |-> row.id, note_type |-> row.note_type,
          message |-> IF row.note_type = "link" THEN "Link saved successfully"
                      ELSE "Note saved successfully"]

\* the table after the INSERT of database.create_note
InsertRow(table, row) == table \cup {row}

\* database.create_note's INSERT and commit, then the handler up to its next
\* await: the next file's read, or the return (app.py:111-125, 156)
CreateInsert(p) ==
    /\ pc[p] = "c_insert"
    /\ LET row  == [loc[p].row EXCEPT !.id = NextRowid(notes, sqliteSeq)]
           more == loc[p].i # 0 /\ loc[p].i < Len(req[p].files)
           created_notes == Append(loc[p].created_notes, Summary(row))
       IN  /\ notes' = InsertRow(notes, row)
           /\ sqliteSeq' = row.id
           /\ inserted' = Append(inserted, row)
           /\ loc' = [loc EXCEPT ![p] =
                  [@ EXCEPT !.created_notes = created_notes,
                            !.i = IF loc[p].i = 0 THEN 0 ELSE @ + 1,
                            !.row = NoReq]]
           /\ pc' = [pc EXCEPT ![p] = IF more THEN "c_file" ELSE "done"]
           /\ resp' = [resp EXCEPT ![p] =
                  IF more THEN @ ELSE CreateOk(created_notes)]
    /\ UNCHANGED <<disk, uuidSeq, clock, req, written, delStat, unlinkFailed>>

\* the response is sent and the slot is free again
Respond(p) ==
    /\ pc[p] = "done"
    /\ pc' = [pc EXCEPT ![p] = "idle"]
    /\ req' = [req EXCEPT ![p] = NoReq]
    /\ loc' = [loc EXCEPT ![p] = NoLoc]
    /\ resp' = [resp EXCEPT ![p] = NoResp]
    /\ UNCHANGED <<notes, sqliteSeq, disk, uuidSeq, clock,
                   inserted, written, delStat, unlinkFailed>>

\* ------------------------------------------------- DELETE /api/notes/{id}
\* what the first delete asked of an id found: the row, or none
FirstSeen(note_id) ==
    IF GetNoteById(notes, note_id) # {} THEN "existed" ELSE "absent"

\* the existence check (app.py:207-210)
DeleteStart(p, note_id) ==
    /\ pc[p] = "idle"
    /\ req' = [req EXCEPT ![p] = [kind |-> "delete", note_id |-> note_id]]
    /\ delStat' = [delStat EXCEPT ![note_id].first =
                      IF @ = "none" THEN FirstSeen(note_id) ELSE @]
    /\ IF GetNoteById(notes, note_id) = {}
       THEN /\ pc' = [pc EXCEPT ![p] = "done"]
            /\ loc' = loc
            /\ resp' = [resp EXCEPT ![p] = [status |-> 404]]
       ELSE /\ pc' = [pc EXCEPT ![p] = "d_unlink"]
            /\ loc' = [loc EXCEPT ![p] =
                   [note |-> CHOOSE r \in GetNoteById(notes, note_id) : TRUE]]
            /\ resp' = resp
    /\ UNCHANGED <<notes, sqliteSeq, disk, uuidSeq, clock,
                   inserted, written, unlinkFailed>>

\* blob store after a file_path.unlink() that did not raise
Unlink(fs, path) == fs \ {path}

\* the blob's removal, up to the await of database.delete_note
\* (app.py:213-219): unlink removes the file or raises, and the handler
\* goes on either way
DeleteUnlink(p) ==
    /\ pc[p] = "d_unlink"
    /\ pc' = [pc EXCEPT ![p] = "d_row"]
    /\ LET note == loc[p].note
           file_path == PathOf(note.file_path[1])
       IN  IF Truthy(note.file_path) /\ Exists(disk, file_path)
           THEN \/ /\ disk' = Unlink(disk, file_path)
                   /\ unlinkFailed' = unlinkFailed
                \/ /\ disk' = disk
                   /\ unlinkFailed' = unlinkFailed \cup {file_path}
           ELSE UNCHANGED <<disk, unlinkFailed>>
    /\ UNCHANGED <<notes, sqliteSeq, uuidSeq, clock, req, loc, resp,
                   inserted, written, delStat>>

\* (a variant: the DELETE removes nothing)
DeleteFromNothing(table, note_id) == table

\* the table after DELETE FROM notes WHERE id = ?
DeleteFrom(table, note_id) == table \ GetNoteById(table, note_id)

\* (a variant: the row count is not looked at)
DeletedAlways(table, note_id) == TRUE

\* cursor.rowcount > 0 after that DELETE
Deleted(table, note_id) == GetNoteById(table, note_id) # {}

\* database.delete_note, and the response (app.py:222-230)
DeleteRow(p) ==
    /\ pc[p] = "d_row"
    /\ notes' = DeleteFrom(notes, req[p].note_id)
    /\ pc' = [pc EXCEPT ![p] = "done"]
    /\ IF Deleted(notes, req[p].note_id)
       THEN /\ resp' = [resp EXCEPT ![p] = [status |-> 200, success |-> TRUE]]
            /\ delStat' = [delStat EXCEPT ![req[p].note_id].ok = @ + 1]
       ELSE /\ resp' = [resp EXCEPT ![p] = [status |-> 404]]
            /\ delStat' = delStat
    /\ UNCHANGED <<sqliteSeq, disk, uuidSeq, clock, req, loc,
                   inserted, written, unlinkFailed>>

\* history: the ids whose delete has reported success
DeletedOk == {id \in Ids : delStat[id].ok > 0}

\* ---------------------------------------------------- GET /api/notes/{id}
\* (loc.deletedOk is history: the deletes that had succeeded when the table
\* was read)
GetNote(p, note_id) ==
    /\ pc[p] = "idle"
    /\ req' = [req EXCEPT ![p] = [kind |-> "get", note_id |-> note_id]]
    /\ pc' = [pc EXCEPT ![p] = "done"]
    /\ resp' = [resp EXCEPT ![p] =
           IF GetNoteById(notes, note_id) = {} THEN [status |-> 404]
           ELSE [status |-> 200, success |-> TRUE,
                 note |-> CHOOSE r \in GetNoteById(notes, note_id) : TRUE]]
    /\ loc' = [loc EXCEPT ![p] = [deletedOk |-> DeletedOk]]
    /\ UNCHANGED <<notes, sqliteSeq, disk, uuidSeq, clock,
                   inserted, written, delStat, unlinkFailed>>

\* --------------------------------------------------------- GET /api/notes
\* the first query (app.py:173-176)
GetNotes(p, limit, offset, search) ==
    /\ pc[p] = "idle"
    /\ req' = [req EXCEPT ![p] = [kind |-> "list", limit |-> limit,
                                  offset |-> offset, search |-> search]]
    /\ pc' = [pc EXCEPT ![p] = "l_count"]
    /\ \E result \in IF Truthy(search)
                     THEN SearchNotes(notes, search[1], limit)
                     ELSE GetAllNotes(notes, limit, offset) :
           loc' = [loc EXCEPT ![p] =
                      [notes |-> result, deletedOk |-> DeletedOk]]
    /\ UNCHANGED <<notes, sqliteSeq, disk, uuidSeq, clock, resp,
                   inserted, written, delStat, unlinkFailed>>

\* get_note_count and the response (app.py:178-186)
GetNotesCount(p) ==
    /\ pc[p] = "l_count"
    /\ pc' = [pc EXCEPT ![p] = "done"]
    /\ resp' = [resp EXCEPT ![p] =
           [status |-> 200, success |-> TRUE, notes |-> loc[p].notes,
            total |-> Cardinality(notes), limit |-> req[p].limit,
            offset |-> req[p].offset]]
    /\ UNCHANGED <<notes, sqliteSeq, disk, uuidSeq, clock, req, loc,
                   inserted, written, delStat, unlinkFailed>>

\* ------------------------------------------------------ GET /files/{name}
\* (a variant: only the separators are looked for)
InvalidFilenameSeparatorsOnly(filename) ==
    \/ Contains(filename, <<"/">>)
    \/ Contains(filename, <<"\\">>)

\* app.py:237  the traversal check
InvalidFilename(filename) ==
    \/ Contains(filename, <<".", ".">>)
    \/ Contains(filename, <<"/">>)
    \/ Contains(filename, <<"\\">>)

\* serve_file: the check, then the path it opens (app.py:237-252); a path
\* that is a directory makes FileResponse fail (500)
ServeFile(p, filename) ==
    /\ pc[p] = "idle"
    /\ req' = [req EXCEPT ![p] = [kind |-> "file", filename |-> filename]]
    /\ pc' = [pc EXCEPT ![p] = "done"]
    /\ LET file_path == JoinPath(UPLOAD_DIR, filename)
       IN  resp' = [resp EXCEPT ![p] =
               IF InvalidFilename(filename) THEN [status |-> 400]
               ELSE IF ~Exists(disk, file_path) THEN [status |-> 404]
               ELSE IF file_path \in Dirs
                    THEN [status |-> 500, path |-> file_path]
               ELSE [status |-> 200, path |-> file_path]]
    /\ UNCHANGED <<notes, sqliteSeq, disk, uuidSeq, clock, loc,
                   inserted, written, delStat, unlinkFailed>>

\* ------------------------------------------------------------ the requests
RECURSIVE SeqsUpTo(_, _)
SeqsUpTo(S, n) ==
    IF n = 0 THEN {<<>>}
    ELSE LET shorter == SeqsUpTo(S, n - 1)
         IN  shorter \cup {Append(q, x) : q \in shorter, x \in S}

\* the uploads a request can carry: a file field left empty, a file of
\* exactly 50 MiB, and one a byte larger
FileInputs ==
    { [filename |-> Some(<<>>), size |-> 0, content_type |-> None],
      [filename |-> Some(<<"a", ".", "txt">>), size |-> MAX_FILE_SIZE,
       content_type |-> None],
      [filename |-> Some(<<"b">>), size |-> MAX_FILE_SIZE + 1,
       content_type |-> Some(<<"image", "/", "png">>)] }

\* every shape of create request: content and link absent, empty or given,
\* over every list of uploads (tags are stored as given and decide nothing)
CreateRequests ==
    [kind : {"create"},
     content : {None, Some(<<>>), Some(<<"a">>)},
     link : {None, Some(<<>>), Some(<<"h">>)},
     tags : {Some(<<"t">>)},
     files : SeqsUpTo(FileInputs, MaxFiles)]

Upload(name) == [filename |-> Some(name), size |-> 2, content_type |-> None]

CreateText(content, tags) ==
    [kind |-> "create", content |-> Some(content), link |-> None,
     tags |-> tags, files |-> <<>>]

CreateFiles(files) ==
    [kind |-> "create", content |-> None, link |-> None, tags |-> None,
     files |-> files]

\* the create requests of the concurrent specification: a text note and an
\* upload
FewCreates ==
    { CreateText(<<"a">>, None),
      CreateFiles(<<Upload(<<"a", ".", "txt">>)>>) }

\* the searches of the concurrent specification
FewSearches == {None, Some(<<"a">>)}

\* the requests of the concurrent specification take their slots in order:
\* the slots are alike, so which request gets which slot does not matter
Arrives(p) == \A q \in 1..(p - 1) : pc[q] # "idle"

Next ==
    \E p \in Procs :
        \/ \E r \in FewCreates : Arrives(p) /\ CreateStart(p, r)
        \/ CreateFile(p)
        \/ CreateInsert(p)
        \/ \E id \in Ids : Arrives(p) /\ DeleteStart(p, id)
        \/ DeleteUnlink(p)
        \/ DeleteRow(p)
        \/ \E id \in Ids : Arrives(p) /\ GetNote(p, id)
        \/ \E search \in FewSearches : Arrives(p) /\ GetNotes(p, 100, 0, search)
        \/ GetNotesCount(p)

\* NumProcs requests, each in a slot of its own, started at any moment and
\* interleaved at their awaits; a finished request keeps its response.  The
\* clock stands still here (timestamps only order a list, and SpecQuery
\* advances it).
Spec == Init /\ [][Next]_vars

NextCreate ==
    \/ \E r \in CreateRequests : CreateStart(1, r)
    \/ CreateFile(1)
    \/ CreateInsert(1)
    \/ Respond(1)

\* one create request at a time, over every shape of request
SpecCreate == Init /\ [][NextCreate]_vars

\* the notes of the query specification: contents, tags and a file name to
\* search in
QueryCreates ==
    { CreateText(<<"a">>, None),
      CreateText(<<"b">>, Some(<<"t">>)),
      CreateFiles(<<Upload(<<"f", ".", "txt">>)>>) }

Limits   == {-1, 0, 1, 100}
Offsets  == {-1, 0, 1}
Searches == {None, Some(<<>>), Some(<<"A">>), Some(<<"t">>), Some(<<"z">>),
             Some(<<"%">>), Some(<<"_">>)}

NextQuery ==
    \/ Tick
    \/ \E r \in QueryCreates : CreateStart(1, r)
    \/ CreateFile(1)
    \/ CreateInsert(1)
    \/ \E limit \in Limits, offset \in Offsets, search \in Searches :
           GetNotes(1, limit, offset, search)
    \/ GetNotesCount(1)
    \/ Respond(1)

\* one request at a time, over every limit, offset and search
SpecQuery == Init /\ [][NextQuery]_vars

\* the names asked of /files/: the blobs' own names, names that are not
\* there, and names that point elsewhere
Filenames ==
    {Uuid4(n) \o <<".", "txt">> : n \in 1..MaxNotes} \cup {Uuid4(n) : n \in 1..MaxNotes}
    \cup { <<"nope">>, <<".">>, <<".", ".">>,
           <<".", ".", "/", "data", "/", "notes", ".", "db">>,
           <<".", ".", "\\", "data", "\\", "notes", ".", "db">>,
           <<"/", "data", "/", "notes", ".", "db">>,
           <<"x", "/", "1", ".", "txt">>,
           <<"1", ".", ".", "txt">> }

NextServe ==
    \/ \E r \in FewCreates : CreateStart(1, r)
    \/ CreateFile(1)
    \/ CreateInsert(1)
    \/ \E id \in Ids : DeleteStart(1, id)
    \/ DeleteUnlink(1)
    \/ DeleteRow(1)
    \/ \E filename \in Filenames : ServeFile(1, filename)
    \/ Respond(1)

\* uploads, deletes and downloads, one request at a time
SpecServe == Init /\ [][NextServe]_vars

\* ================================================================== claims
\* an Optional[str] that is given and not empty
NonEmpty(o) == Len(o) = 1 /\ Len(o[1]) > 0

\* a finished create request in slot p
CreateDone(p) == pc[p] = "done" /\ req[p].kind = "create"

\* the rows and the blobs that came to be since slot p's request began (in
\* a specification of one request at a time: the request's own)
RowsSince(p)  == SubSeq(inserted, loc[p].ibase + 1, Len(inserted))
BlobsSince(p) == SubSeq(written, loc[p].wbase + 1, Len(written))

\* the request's files that carry a name, among its first n
NamedFiles(files, n) ==
    LET Named(f) == NonEmpty(f.filename)
    IN  SelectSeq(SubSeq(files, 1, n), Named)

\* the request's first file is there and has a name
FirstFileNamed(files) == Len(files) >= 1 /\ NonEmpty(files[1].filename)

\* C1: a create request is classified first match wins.  With a named first
\* file only file notes are created, whatever link and content say;
\* otherwise with a link exactly one note, of type link and with the link as
\* content; otherwise with content exactly one note, of type text and with
\* that content; otherwise the answer is 400 and no row is created.
C1_FirstMatchWins ==
    \A p \in Procs : CreateDone(p) =>
        LET r == req[p]
            rows == RowsSince(p)
        IN  IF FirstFileNamed(r.files)
            THEN /\ \A i \in 1..Len(rows) : rows[i].note_type = "file"
                 /\ resp[p].status \in {200, 413}
            ELSE IF NonEmpty(r.link)
            THEN /\ resp[p].status = 200
                 /\ Len(rows) = 1
                 /\ rows[1].note_type = "link"
                 /\ rows[1].content = r.link
                 /\ rows[1] \in notes
            ELSE IF NonEmpty(r.content)
            THEN /\ resp[p].status = 200
                 /\ Len(rows) = 1
                 /\ rows[1].note_type = "text"
                 /\ rows[1].content = r.content
                 /\ rows[1] \in notes
            ELSE /\ resp[p].status = 400
                 /\ rows = <<>>
                 /\ BlobsSince(p) = <<>>

\* C1's case: uploads together with a link and content made file notes only,
\* and in the same run a link together with content made one link note
C1_Witness ==
    \E p \in Procs :
        /\ CreateDone(p)
        /\ Len(inserted) >= 2
        /\ inserted[1].note_type = "link"
        /\ inserted[1].content # None
        /\ FirstFileNamed(req[p].files)
        /\ NonEmpty(req[p].link)
        /\ NonEmpty(req[p].content)
        /\ resp[p].status = 200
        /\ Len(RowsSince(p)) = 1
        /\ RowsSince(p)[1].note_type = "file"

\* the first of the request's files that has a name and more than 50 MiB
\* (0: none)
FirstTooLarge(files) ==
    LET big == {i \in 1..Len(files) :
                   NonEmpty(files[i].filename) /\ files[i].size > 50 * 1024 * 1024}
    IN  IF big = {} THEN 0 ELSE CHOOSE i \in big : \A j \in big : i <= j

C9_NoRollback ==
    \A p \in Procs : (CreateDone(p) /\ resp[p].status = 413) =>
        LET k == loc[p].i
            before == NamedFiles(req[p].files, k - 1)
            rows == RowsSince(p)
            blobs == BlobsSince(p)
        IN  /\ k = FirstTooLarge(req[p].files)
            /\ Len(rows) = Len(before)
            /\ Len(blobs) = Len(before)
            /\ \A j \in 1..Len(rows) :
                  /\ rows[j].file_name = before[j].filename
                  /\ rows[j].note_type = "file"
                  /\ rows[j] \in notes
                  /\ PathOf(rows[j].file_path[1]) = blobs[j]
                  /\ blobs[j] \in disk
            /\ \A i, j \in 1..Len(rows) : i < j => rows[i].id < rows[j].id

\* C9's case: the second file failed after the first was stored
C9_Witness ==
    \E p \in Procs :
        /\ CreateDone(p)
        /\ resp[p].status = 413
        /\ loc[p].i = 2
        /\ Len(RowsSince(p)) = 1
        /\ RowsSince(p)[1] \in notes

\* the ids a finished or running create of slot p has handed out so far
ReturnedIds(p) ==
    {loc[p].created_notes[i].id : i \in 1..Len(loc[p].created_notes)}

\* C5: every id a create assigns is greater than every id assigned before
\* it, deleted notes included; the ids a create returns are ids assigned
\* that way, and no two rows of the table share an id.
C5_IdsNeverReused ==
    /\ \A i, j \in 1..Len(inserted) : i < j => inserted[i].id < inserted[j].id
    /\ \A p \in Procs : req[p].kind = "create" =>
           ReturnedIds(p) \subseteq {inserted[i].id : i \in 1..Len(inserted)}
    /\ \A r1, r2 \in notes : r1.id = r2.id => r1 = r2

\* C5's case: a create returned an id after the only earlier note, the one
\* with the largest id so far, had been deleted
C5_Witness ==
    \E p \in Procs :
        /\ CreateDone(p)
        /\ resp[p].status = 200
        /\ loc[p].ibase = 1
        /\ Len(inserted) = 2
        /\ delStat[inserted[1].id].ok = 1
        /\ ReturnedIds(p) = {inserted[2].id}
        /\ notes = {inserted[2]}

\* a delete of the id is between its existence check and its response
DeleteInProgress(note_id) ==
    \E p \in Procs :
        /\ req[p].kind = "delete"
        /\ req[p].note_id = note_id
        /\ pc[p] \in {"d_unlink", "d_row"}

\* C10: every file note in the table that no delete is working on has a
\* file_path naming a blob that exists.
C10_BlobExists ==
    \A row \in notes :
        (row.note_type = "file" /\ ~DeleteInProgress(row.id)) =>
            /\ NonEmpty(row.file_path)
            /\ PathOf(row.file_path[1]) \in disk

\* C10's case: two file notes, one with its blob and no delete at work on
\* it, the other with its blob already removed by a delete that has not
\* removed the row yet
C10_Witness ==
    \E r1, r2 \in notes :
        /\ r1.note_type = "file" /\ r2.note_type = "file"
        /\ ~DeleteInProgress(r1.id)
        /\ PathOf(r1.file_path[1]) \in disk
        /\ DeleteInProgress(r2.id)
        /\ PathOf(r2.file_path[1]) \notin disk

\* a finished delete request in slot p
DeleteDone(p) == pc[p] = "done" /\ req[p].kind = "delete"

\* C4: of the deletes asked of one id, with no note of that id created in
\* between, exactly one reports success if the note existed when the first
\* began and none if it did not; every other one answers 404, also the one
\* whose existence check passed and whose row another delete removed first.
C4_OneDeleteSucceeds ==
    /\ \A id \in Ids :
        /\ delStat[id].ok <= 1
        /\ (delStat[id].first = "existed" /\ ~DeleteInProgress(id)) =>
               delStat[id].ok = 1
        /\ (delStat[id].first = "absent"
               /\ id \notin {inserted[i].id : i \in 1..Len(inserted)}) =>
               delStat[id].ok = 0
    /\ \A p \in Procs : DeleteDone(p) =>
        /\ resp[p].status \in {200, 404}
        /\ resp[p].status = 200 => delStat[req[p].note_id].ok = 1
        /\ \A q \in Procs \ {p} :
              (DeleteDone(q) /\ req[q].note_id = req[p].note_id) =>
                  ~(resp[p].status = 200 /\ resp[q].status = 200)

\* C4's case: two deletes of one id both passed the existence check; one
\* reported success and the other, finding the row gone, answered 404
C4_Witness ==
    \E p, q \in Procs :
        /\ p # q
        /\ DeleteDone(p) /\ DeleteDone(q)
        /\ req[p].note_id = req[q].note_id
        /\ resp[p].status = 200
        /\ resp[q].status = 404
        /\ "note" \in DOMAIN loc[q]
        /\ delStat[req[p].note_id].first = "existed"

\* the row that was inserted with this id
InsertedRow(id) ==
    inserted[CHOOSE i \in 1..Len(inserted) : inserted[i].id = id]

\* every read made after a delete succeeded misses the deleted note: a get
\* of it answers 404, and no list or search result holds it
ReadsMissDeleted ==
    \A p \in Procs :
        /\ (pc[p] = "done" /\ req[p].kind = "get"
               /\ req[p].note_id \in loc[p].deletedOk) =>
               resp[p].status = 404
        /\ (pc[p] = "done" /\ req[p].kind = "list") =>
               \A i \in 1..Len(resp[p].notes) :
                   resp[p].notes[i].id \notin loc[p].deletedOk

\* the blob of every note whose delete reported success is gone
BlobsOfDeletedGone ==
    \A id \in DeletedOk :
        NonEmpty(InsertedRow(id).file_path) =>
            PathOf(InsertedRow(id).file_path[1]) \notin disk

\* ... or its unlink raised, which delete_note swallows
BlobsOfDeletedGoneUnlessUnlinkRaised ==
    \A id \in DeletedOk :
        NonEmpty(InsertedRow(id).file_path) =>
            \/ PathOf(InsertedRow(id).file_path[1]) \notin disk
            \/ PathOf(InsertedRow(id).file_path[1]) \in unlinkFailed

\* C3 as stated: after a delete of a note succeeded, every later get of it
\* answers 404, no later list or search result holds it, and its blob, if
\* it had one, is no longer in the blob store.
C3_AsStated == ReadsMissDeleted /\ BlobsOfDeletedGone

\* C3, amended: after a delete of a note succeeded, every later get of it
\* answers 404, no later list or search result holds it, and its blob, if
\* it had one, is no longer in the blob store unless removing it raised an
\* error, which the delete swallows.
C3_DeletedStaysDeleted ==
    ReadsMissDeleted /\ BlobsOfDeletedGoneUnlessUnlinkRaised

\* C3's case: a file note's delete succeeded and removed its blob, and a get
\* of that id made after it answered 404
C3_Witness ==
    \E p \in Procs :
        /\ pc[p] = "done" /\ req[p].kind = "get"
        /\ req[p].note_id \in loc[p].deletedOk
        /\ resp[p].status = 404
        /\ InsertedRow(req[p].note_id).note_type = "file"
        /\ PathOf(InsertedRow(req[p].note_id).file_path[1]) \notin disk
        /\ unlinkFailed = {}

\* slot p holds the result of a list request's query
ListRead(p) == pc[p] \in {"l_count", "done"} /\ req[p].kind = "list"

\* the elements of an ordered list at the positions [from, from + count),
\* the first position being 0
Slice(ordered, from, count) ==
    LET at == {i \in 1..Len(ordered) : from < i /\ i <= from + count}
    IN  [k \in 1..Cardinality(at) |->
            ordered[CHOOSE i \in at : Cardinality({j \in at : j < i}) = k - 1]]

\* C6: a list without a search returns the notes of the table, newest
\* first, at the positions [offset, offset + limit), for every limit and every
\* offset.
C6_ListIsTheSlice ==
    \A p \in Procs : (ListRead(p) /\ req[p].search = None) =>
        \E o \in OrderByCreatedDesc(notes) :
            loc[p].notes = Slice(o, req[p].offset, req[p].limit)

\* (for limits and offsets from 0 up the slice is what the code returns)
C6_NonNegativeOnly ==
    \A p \in Procs :
        (ListRead(p) /\ req[p].search = None
            /\ req[p].limit >= 0 /\ req[p].offset >= 0) =>
            \E o \in OrderByCreatedDesc(notes) :
                loc[p].notes = Slice(o, req[p].offset, req[p].limit)

\* the search string occurs in the text (letters compared as the store's
\* collation does, without regard to case)
RECURSIVE FoldAll(_)
FoldAll(text) ==
    IF text = <<>> THEN <<>> ELSE <<Fold(Head(text))>> \o FoldAll(Tail(text))

Occurs(col, search) ==
    col # None /\ Contains(FoldAll(col[1]), FoldAll(search))

\* C7: a list with a search string returns exactly the notes whose
\* content, tags or file_name contains the string, newest first, cut to the
\* first limit of them (stated here for the limits from 0 up), whatever the
\* offset; a string that occurs in no note returns the empty list.
C7_SearchIsSubstring ==
    \A p \in Procs :
        (ListRead(p) /\ NonEmpty(req[p].search) /\ req[p].limit >= 0) =>
            LET hits == {r \in notes :
                            \/ Occurs(r.content, req[p].search[1])
                            \/ Occurs(r.tags, req[p].search[1])
                            \/ Occurs(r.file_name, req[p].search[1])}
            IN  \E o \in OrderByCreatedDesc(hits) :
                    loc[p].notes = Slice(o, 0, req[p].limit)

\* a finished download request in slot p
ServeDone(p) == pc[p] = "done" /\ req[p].kind = "file"

\* the filename holds a path separator or a parent-directory sequence
HasSeparatorOrParent(filename) ==
    \E i \in 1..Len(filename) :
        \/ filename[i] = "/"
        \/ filename[i] = "\\"
        \/ (i < Len(filename) /\ filename[i] = "." /\ filename[i + 1] = ".")

\* the path lies in the blob directory
InBlobDir(path) == Len(path) = 2 /\ path[1] = <<"uploads">>

\* C8: a filename with a path separator or a parent-directory sequence is
\* answered 400 with no path opened; no answer opens a path outside the blob
\* directory; a filename that passes the check and names nothing in the blob
\* directory is answered 404.
C8_NoTraversal ==
    \A p \in Procs : ServeDone(p) =>
        /\ HasSeparatorOrParent(req[p].filename) =>
               (resp[p].status = 400 /\ "path" \notin DOMAIN resp[p])
        /\ resp[p].status = 200 =>
               (InBlobDir(resp[p].path) /\ resp[p].path \in disk)
        /\ "path" \in DOMAIN resp[p] =>
               SubSeq(resp[p].path, 1, 1) = UPLOAD_DIR
        /\ (/\ ~HasSeparatorOrParent(req[p].filename)
            /\ << <<"uploads">>, req[p].filename >> \notin disk
            /\ req[p].filename # <<".">>) =>
               resp[p].status = 404

\* C8's case: with a blob stored, a request for ../data/notes.db, a file
\* that exists outside the blob directory, was answered 400
C8_Witness ==
    \E p \in Procs :
        /\ ServeDone(p)
        /\ req[p].filename = <<".", ".", "/", "data", "/", "notes", ".", "db">>
        /\ resp[p].status = 400
        /\ \E path \in disk : InBlobDir(path)
====
